---- MODULE Spec2Model ----
(***************************************************************************)
(* Model of the Gemini multi-key proxy (src/proxy_server.py): the          *)
(* credential/usage map, the dispatch loop of proxy_to_gemini, the 429     *)
(* classifier handle_rate_limit_error, the daily reset task and the two    *)
(* format translators.                                                     *)
(***************************************************************************)
EXTENDS Integers, Sequences, FiniteSets, TLC

(* ------------------------------ bounds -------------------------------- *)

\* Number of credentials loaded from api_keys.json.
NumKeys == 3

\* A request is started only while every request_count is below this cap.
MaxCount == 1

(* ------------------------- program constants -------------------------- *)

\* Variant of MAX_RETRIES: one attempt more.
MaxRetriesFour == 3 + 1

MAX_RETRIES == 3

Keys == 1..NumKeys

\* The model name requests carry (first entry of SUPPORTED_MODELS).
Models == {"gemini-2.5-pro"}

\* A model that only the loaded file has usage for.
OtherModel == "gemini-2.5-flash"

\* Dispatch flows (one per in-flight request) and the reset thread.
Flows == {"f1", "f2"}

\* Flows that serve requests in the sequential specification Spec.
SeqFlows == {"f1"}

ResetThread == "reset"

NoOwner == "none"

\* The flow has not run print_status_tui in this request.
Unread == "unread"

(* ------------------------- upstream outcomes -------------------------- *)

\* What one requests.post can produce, by the distinctions the code draws:
\*   ok        2xx whose body decodes as JSON
\*   s503      503
\*   rl_delay  429 whose body carries a parseable RetryInfo.retryDelay
\*   rl_quota  429 without a parseable delay, body contains "quotaMetric"
\*   rl_plain  429 without a parseable delay and without "quotaMetric"
\*   other     any other 4xx/5xx
\*   transport requests raised a RequestException (connection failure, or
\*             a 2xx whose body does not decode)
Outcomes == {"ok", "s503", "rl_delay", "rl_quota", "rl_plain", "other", "transport"}

StatusOf(o) ==
  CASE o = "ok" -> 200
    [] o = "s503" -> 503
    [] o \in {"rl_delay", "rl_quota", "rl_plain"} -> 429
    [] o = "other" -> 400
    [] OTHER -> 0

\* handle_rate_limit_error, lines 173-189: a delay is returned iff the body
\* holds a parseable RetryInfo.retryDelay.
HasRetryDelay(o) == o = "rl_delay"

\* Variant of HasQuotaMarker: every 429 without a delay counts as quota.
HasQuotaMarkerAny(o) == o \in {"rl_quota", "rl_plain"}

\* handle_rate_limit_error, line 191.
HasQuotaMarker(o) == o = "rl_quota"

\* A retry delay far above any wait a request should make (a day, in seconds).
LongDelay == 86400

\* The retryDelay values a 429 may carry (line 184: any float the body holds).
Delays == {1, LongDelay}

\* The delay handle_rate_limit_error returns for outcome o: one of Delays for
\* a 429 with a parseable delay, 0 standing for None.
DelaysOf(o) == IF HasRetryDelay(o) THEN Delays ELSE {0}

NoSleep == [longest |-> 0, late |-> FALSE]

\* time.sleep(delay) at line 358, made on attempt a (0-based): the longest
\* provided delay slept so far, and whether one was slept on the last attempt.
SleepOn(sl, d, a) ==
  [longest |-> IF d > sl.longest THEN d ELSE sl.longest,
   late |-> sl.late \/ a = MAX_RETRIES - 1]

(* --------------------------- usage records ---------------------------- *)

NewRecord == [token_count |-> 0, request_count |-> 0, rpd_limit_reached |-> FALSE]

NoUsage == [m \in {} |-> NewRecord]

\* dict.setdefault(model_name, {...}) on api_keys[k]['usage'].
SetDefault(u, k, m) ==
  IF m \in DOMAIN u[k] THEN u
  ELSE [u EXCEPT ![k] = [x \in (DOMAIN u[k]) \cup {m} |->
                            IF x = m THEN NewRecord ELSE u[k][x]]]

\* Variant of Exhausted: the flag is never honoured.
ExhaustedIgnored(u, k, m) == FALSE

\* The record of (k, m) is present and benched (model_usage.get('rpd_limit_reached', False)).
Exhausted(u, k, m) == m \in DOMAIN u[k] /\ u[k][m].rpd_limit_reached

\* Variant of RecordSuccess: the count of every model of the key is raised.
RecordSuccessAllModels(u, k, m) ==
  [u EXCEPT ![k] = [x \in DOMAIN u[k] |->
                      [u[k][x] EXCEPT !.request_count = @ + 1]]]

\* api_keys[key_index]['usage'][model_name]['request_count'] += 1
RecordSuccess(u, k, m) ==
  [u EXCEPT ![k][m].request_count = @ + 1]

\* Variant of RecordExhausted: the record is created but the flag is not set.
RecordExhaustedNoFlag(u, k, m) == SetDefault(u, k, m)

\* model_usage['rpd_limit_reached'] = True, after the two setdefault calls.
RecordExhausted(u, k, m) ==
  [SetDefault(u, k, m) EXCEPT ![k][m].rpd_limit_reached = TRUE]

\* Variant of ResetUsage: the flag is flipped instead of cleared.
ResetUsageToggle(u) ==
  [k \in DOMAIN u |->
     [m \in DOMAIN u[k] |->
        [u[k][m] EXCEPT !.rpd_limit_reached = ~@, !.request_count = 0]]]

\* Variant of ResetUsage: the lifetime token counter is zeroed as well.
ResetUsageZeroTokens(u) ==
  [k \in DOMAIN u |-> [m \in DOMAIN u[k] |-> NewRecord]]

\* The loop of reset_rpd_limits_daily over every key and every model.
ResetUsage(u) ==
  [k \in DOMAIN u |->
     [m \in DOMAIN u[k] |->
        [u[k][m] EXCEPT !.rpd_limit_reached = FALSE, !.request_count = 0]]]

\* json.dump(api_keys, f): the file is the list of the keys in load order, each
\* with its 'usage' object when it has one.
Snapshot(u) ==
  [k \in DOMAIN u |->
     [key |-> k, has_usage |-> DOMAIN u[k] # {}, usage |-> u[k]]]

(* ------------------------- remembered errors -------------------------- *)

NoError == [kind |-> "none", status |-> 0, key |-> 0]

\* last_error_response = e.response (lines 361, 368) or the
\* (jsonify({"error": ...}), 500) tuple (line 375); key is the credential
\* whose attempt produced it.
Remembered(o, k) ==
  IF o = "transport"
  THEN [kind |-> "tuple", status |-> 500, key |-> k]
  ELSE [kind |-> "response", status |-> StatusOf(o), key |-> k]

\* `if last_error_response:` -- None is falsy, a non-empty tuple is truthy,
\* and a requests.Response is truthy exactly when its status is below 400
\* (Response.__bool__ returns Response.ok).
Truthy(e) ==
  \/ e.kind = "tuple"
  \/ e.kind = "response" /\ e.status < 400

\* Variant of Decide: a 503 is never retried.
Decide503NoRetry(o, a) ==
  CASE o = "ok" -> "success"
    [] o = "s503" -> "remember"
    [] StatusOf(o) = 429 ->
         IF HasRetryDelay(o) THEN "again"
         ELSE IF HasQuotaMarker(o) THEN "bench" ELSE "remember"
    [] OTHER -> IF a < MAX_RETRIES - 1 THEN "again" ELSE "remember"

\* Variant of Decide: another 4xx/5xx is never retried.
DecideFatalNoRetry(o, a) ==
  CASE o = "ok" -> "success"
    [] o = "s503" -> IF a < MAX_RETRIES - 1 THEN "again" ELSE "remember"
    [] StatusOf(o) = 429 ->
         IF HasRetryDelay(o) THEN "again"
         ELSE IF HasQuotaMarker(o) THEN "bench" ELSE "remember"
    [] o = "other" -> "remember"
    [] OTHER -> IF a < MAX_RETRIES - 1 THEN "again" ELSE "remember"

\* What one attempt's outcome makes the retry loop do (lines 329-375):
\*   success   account the request and return the response
\*   again     sleep, `continue`: next iteration of the attempt loop
\*   bench     handle_rate_limit_error marks the pair, error remembered, break
\*   remember  error remembered, this credential is left
Decide(o, a) ==
  CASE o = "ok" -> "success"
    [] o = "s503" -> IF a < MAX_RETRIES - 1 THEN "again" ELSE "remember"
    [] StatusOf(o) = 429 ->
         IF HasRetryDelay(o) THEN "again"
         ELSE IF HasQuotaMarker(o) THEN "bench" ELSE "remember"
    [] OTHER -> IF a < MAX_RETRIES - 1 THEN "again" ELSE "remember"

\* The response returned after the credential loop (lines 377-392).
FinalResult(e) ==
  IF Truthy(e)
  THEN [kind |-> IF e.kind = "tuple" THEN "transport_error" ELSE "upstream_error",
        status |-> e.status, key |-> e.key]
  ELSE [kind |-> "all_exhausted", status |-> 503, key |-> 0]

NoResult == [kind |-> "none", status |-> 0, key |-> 0]

(* ------------------------- format translation ------------------------- *)

\* Length bounds of the inputs the translators are applied to.
MaxMessages == 3

MaxCandidates == 2

\* Texts are sequences of tokens; "\n" is the newline of the f-strings.
Texts == {<<>>, <<"a">>, <<"b">>}

StrContent(t) == [kind |-> "str", text |-> t, parts |-> <<>>]

ListContent(ps) == [kind |-> "list", text |-> <<>>, parts |-> ps]

TextPart(t) == [type |-> "text", text |-> t]

ImagePart == [type |-> "image_url", text |-> <<>>]

\* Contents of a chat message: a string, or (user messages) a list of typed parts.
ListContents ==
  {ListContent(<<>>), ListContent(<<TextPart(<<"a">>)>>),
   ListContent(<<ImagePart, TextPart(<<"b">>)>>)}

Messages ==
  [role : {"system", "user", "assistant"}, content : {StrContent(t) : t \in Texts}]
    \cup [role : {"user"}, content : ListContents]

SeqsUpTo(S, n) == UNION {[1..len -> S] : len \in 0..n}

ChatModels == {"gemini-2.5-pro", "gemini-2.5-flash"}

\* system_prompt: None, or the content of a system message.
NoPrompt == [some |-> FALSE, text |-> <<>>]

\* Variant of NextPrompt: a pending system text is kept, the later one dropped.
NextPromptKeepFirst(sp, content) ==
  IF sp.some /\ sp.text # <<>> THEN sp ELSE [some |-> TRUE, text |-> content.text]

\* Line 119: system_prompt = content.
NextPrompt(sp, content) == [some |-> TRUE, text |-> content.text]

\* `if system_prompt`: neither None nor the empty string.
PromptTruthy(sp) == sp.some /\ sp.text # <<>>

\* Lines 125-131: the system text goes in front of the user content.
Prepend(t, content) ==
  IF content.kind = "str"
  THEN StrContent(t \o <<"\n">> \o content.text)
  ELSE IF content.parts # <<>> /\ content.parts[1].type = "text"
       THEN ListContent([content.parts EXCEPT ![1].text = t \o <<"\n">> \o @])
       ELSE ListContent(<<TextPart(t)>> \o content.parts)

RECURSIVE ConvertFrom(_, _, _, _)
\* The loop of convert_openai_to_gemini_request from message i on, with the
\* pending system_prompt sp and the gemini_contents built so far.
ConvertFrom(messages, i, sp, gemini_contents) ==
  IF i > Len(messages) THEN gemini_contents
  ELSE LET role == messages[i].role
           content == messages[i].content
           gemini_role == IF role = "user" THEN "user" ELSE "model"
           use == PromptTruthy(sp) /\ gemini_role = "user"
       IN IF role = "system"
          THEN ConvertFrom(messages, i + 1, NextPrompt(sp, content), gemini_contents)
          ELSE ConvertFrom(messages, i + 1,
                           IF use THEN NoPrompt ELSE sp,
                           Append(gemini_contents,
                                  [role |-> gemini_role,
                                   parts |-> <<[text |-> IF use THEN Prepend(sp.text, content)
                                                         ELSE content]>>]))

convert_openai_to_gemini_request(openai_req) ==
  [contents |-> ConvertFrom(openai_req.messages, 1, NoPrompt, <<>>)]

\* A candidate of the upstream response: content.parts may be missing, empty or
\* hold parts with or without a text; finishReason and index may be missing.
NoParts == [present |-> FALSE, list |-> <<>>]

PartsLists ==
  {<<>>,
   <<[has_text |-> TRUE, text |-> <<"Paris">>]>>,
   <<[has_text |-> FALSE, text |-> <<>>]>>,
   <<[has_text |-> TRUE, text |-> <<"Paris">>], [has_text |-> TRUE, text |-> <<"!">>]>>}

Candidates ==
  [parts : {NoParts} \cup {[present |-> TRUE, list |-> l] : l \in PartsLists},
   finishReason : {"", "STOP", "MAX_TOKENS"},
   index : {-1, 1}]

\* candidate.get('content', {}).get('parts', [{}])[0].get('text', ''): indexing
\* an empty parts list raises IndexError.
Raises(candidate) == candidate.parts.present /\ candidate.parts.list = <<>>

FirstText(candidate) ==
  IF ~candidate.parts.present THEN <<>>
  ELSE IF candidate.parts.list[1].has_text THEN candidate.parts.list[1].text
       ELSE <<>>

\* Lines 149-153 ("" and -1 stand for a missing finishReason and index).
Choice(candidate) ==
  [index |-> IF candidate.index = -1 THEN 0 ELSE candidate.index,
   message |-> [role |-> "assistant", content |-> FirstText(candidate)],
   finish_reason |-> IF candidate.finishReason = "" THEN "stop"
                     ELSE candidate.finishReason]

NoResponse ==
  [raised |-> FALSE, object |-> "", model |-> "", choices |-> <<>>,
   usage |-> [prompt_tokens |-> 0, completion_tokens |-> 0, total_tokens |-> 0]]

\* The id and the creation time (random, clock) are left out.
convert_gemini_to_openai_response(gemini_response, model) ==
  IF \E i \in 1..Len(gemini_response.candidates) : Raises(gemini_response.candidates[i])
  THEN [NoResponse EXCEPT !.raised = TRUE]
  ELSE [raised |-> FALSE,
        object |-> "chat.completion",
        model |-> model,
        choices |-> [i \in 1..Len(gemini_response.candidates) |->
                       Choice(gemini_response.candidates[i])],
        usage |-> [prompt_tokens |-> 0, completion_tokens |-> 0, total_tokens |-> 0]]

NoRequest == [model |-> "", messages |-> <<>>]

\* One system message and one user message.
RoundTripRequest ==
  [model |-> "gemini-2.5-pro",
   messages |-> <<[role |-> "system", content |-> StrContent(<<"a">>)],
                  [role |-> "user", content |-> StrContent(<<"b">>)]>>]

(* ------------------------------- state -------------------------------- *)

VARIABLES
  usage,                \* api_keys[k]['usage']: per key, model -> record
  file,                 \* contents of api_keys.json
  key_lock,             \* owner of key_lock
  file_lock,            \* owner of file_lock
  pc,                   \* per flow: position in proxy_to_gemini
  model_name,           \* per flow: the requested model
  key_index,            \* per flow: credential of the outer loop (1-based)
  attempt,              \* per flow: index of the attempt loop (0-based)
  last_error_response,  \* per flow
  result,               \* per flow: the response returned
  rpc,                  \* position of the reset thread
  trace,                \* per flow: outcomes received with the credential last selected
  tried,                \* per flow: credentials used for an upstream call
  credited,             \* per flow: credentials whose request_count it incremented
  reset_seen,           \* per flow: a reset ran since the request started
  benched_by,           \* per flow: credentials it marked exhausted
  lastWasReset,         \* the last change of usage or file was a reset
  calls,                \* per flow: upstream calls issued for the request
  tui_pending,          \* per flow: a print_status_tui call is due (line 326 or 348)
  tui_owner,            \* per flow: holder of key_lock when it last read the status
  slept,                \* per flow: the sleeps of the request on provided delays
  t_pc,                 \* position in chat_completions
  openai_request,       \* request.json of chat_completions
  gemini_request_data,  \* result of convert_openai_to_gemini_request
  gemini_response_json, \* body the internal call returns
  openai_response       \* result of convert_gemini_to_openai_response

vars == <<usage, file, key_lock, file_lock, pc, model_name, key_index, attempt,
          last_error_response, result, rpc, trace, tried, credited, reset_seen,
          benched_by, lastWasReset, calls, tui_pending, tui_owner, slept, t_pc,
          openai_request,
          gemini_request_data, gemini_response_json, openai_response>>

dispatchVars == <<usage, file, key_lock, file_lock, pc, model_name, key_index,
                  attempt, last_error_response, result, rpc, trace, tried,
                  credited, reset_seen, benched_by, lastWasReset, calls,
                  tui_pending, tui_owner, slept>>

chatVars == <<t_pc, openai_request, gemini_request_data, gemini_response_json,
              openai_response>>

flowVars == <<pc, model_name, key_index, attempt, last_error_response, result,
              trace, tried, credited, reset_seen, benched_by, calls, tui_pending,
              tui_owner, slept>>

\* api_keys.json as an earlier run left it: key #1 holds a benched record of
\* OtherModel, the other keys have no usage yet.
LoadedUsage ==
  [k \in Keys |->
     IF k = 1
     THEN [m \in {OtherModel} |->
             [token_count |-> 5, request_count |-> 1, rpd_limit_reached |-> TRUE]]
     ELSE NoUsage]

\* load_api_keys (lines 34-45, 397).
InitDispatch ==
  /\ usage = LoadedUsage
  /\ file = Snapshot(LoadedUsage)
  /\ key_lock = NoOwner
  /\ file_lock = NoOwner
  /\ pc = [f \in Flows |-> "idle"]
  /\ model_name = [f \in Flows |-> "-"]
  /\ key_index = [f \in Flows |-> 0]
  /\ attempt = [f \in Flows |-> 0]
  /\ last_error_response = [f \in Flows |-> NoError]
  /\ result = [f \in Flows |-> NoResult]
  /\ rpc = "sleep"
  /\ trace = [f \in Flows |-> <<>>]
  /\ tried = [f \in Flows |-> {}]
  /\ credited = [f \in Flows |-> <<>>]
  /\ reset_seen = [f \in Flows |-> FALSE]
  /\ benched_by = [f \in Flows |-> {}]
  /\ lastWasReset = FALSE
  /\ calls = [f \in Flows |-> 0]
  /\ tui_pending = [f \in Flows |-> FALSE]
  /\ tui_owner = [f \in Flows |-> Unread]
  /\ slept = [f \in Flows |-> NoSleep]

(* --------------------------- dispatch flow ---------------------------- *)

Last(s) == s[Len(s)]

\* A request for model m arrives at proxy_to_gemini (lines 294-304).
Start(f) ==
  /\ pc[f] = "idle"
  /\ \E m \in Models :
       /\ \A k \in Keys : m \in DOMAIN usage[k] => usage[k][m].request_count < MaxCount
       /\ model_name' = [model_name EXCEPT ![f] = m]
  /\ pc' = [pc EXCEPT ![f] = "select"]
  /\ key_index' = [key_index EXCEPT ![f] = 1]
  /\ attempt' = [attempt EXCEPT ![f] = 0]
  /\ last_error_response' = [last_error_response EXCEPT ![f] = NoError]
  /\ result' = [result EXCEPT ![f] = NoResult]
  /\ trace' = [trace EXCEPT ![f] = <<>>]
  /\ tried' = [tried EXCEPT ![f] = {}]
  /\ credited' = [credited EXCEPT ![f] = <<>>]
  /\ reset_seen' = [reset_seen EXCEPT ![f] = FALSE]
  /\ benched_by' = [benched_by EXCEPT ![f] = {}]
  /\ calls' = [calls EXCEPT ![f] = 0]
  /\ tui_owner' = [tui_owner EXCEPT ![f] = Unread]
  /\ slept' = [slept EXCEPT ![f] = NoSleep]
  /\ UNCHANGED <<usage, file, key_lock, file_lock, rpc, lastWasReset, tui_pending>>
  /\ UNCHANGED chatVars

\* Variant of Advance: the outer loop comes back to the same credential.
AdvanceSameKey(f) ==
  /\ key_index' = key_index
  /\ attempt' = [attempt EXCEPT ![f] = 0]
  /\ pc' = [pc EXCEPT ![f] = "select"]

\* The outer loop moves to the next credential, or ends (line 306).
Advance(f) ==
  /\ key_index' = [key_index EXCEPT ![f] = @ + 1]
  /\ attempt' = [attempt EXCEPT ![f] = 0]
  /\ pc' = [pc EXCEPT ![f] = IF key_index[f] + 1 > NumKeys THEN "finish" ELSE "select"]

\* Lines 307-327: under key_lock create the record if missing and skip the
\* credential if it is benched; otherwise enter the attempt loop with it.
Select(f) ==
  /\ pc[f] = "select"
  /\ key_lock = NoOwner
  /\ LET k == key_index[f]
         m == model_name[f]
         u1 == SetDefault(usage, k, m)
     IN /\ usage' = u1
        /\ lastWasReset' = (lastWasReset /\ u1 = usage)
        /\ IF Exhausted(u1, k, m)
           THEN /\ Advance(f)
                /\ UNCHANGED <<tried, trace, calls, tui_pending>>
           ELSE /\ pc' = [pc EXCEPT ![f] = "call"]
                /\ tui_pending' = [tui_pending EXCEPT ![f] = TRUE]
                /\ calls' = [calls EXCEPT ![f] = @ + 1]
                /\ attempt' = [attempt EXCEPT ![f] = 0]
                /\ trace' = [trace EXCEPT ![f] = <<>>]
                /\ tried' = [tried EXCEPT ![f] = @ \cup {k}]
                /\ UNCHANGED key_index
  /\ UNCHANGED <<file, key_lock, file_lock, model_name, last_error_response,
                 result, rpc, credited, reset_seen, benched_by, tui_owner, slept>>
  /\ UNCHANGED chatVars

\* Lines 330-375: requests.post returns or raises, and the attempt loop
\* reacts (the sleeps before a retry are part of the step).
UpstreamResponds(f) ==
  /\ pc[f] = "call"
  /\ ~tui_pending[f]
  /\ \E o \in Outcomes : \E delay \in DelaysOf(o) :
       LET k == key_index[f]
           d == Decide(o, attempt[f])
       IN /\ trace' = [trace EXCEPT ![f] = Append(@, o)]
          /\ slept' = IF delay # 0
                      THEN [slept EXCEPT ![f] = SleepOn(@, delay, attempt[f])]
                      ELSE slept
          /\ CASE d = "success" ->
                    /\ pc' = [pc EXCEPT ![f] = "account"]
                    /\ UNCHANGED <<key_index, attempt, last_error_response, calls>>
               [] d = "bench" ->
                    /\ pc' = [pc EXCEPT ![f] = "mark"]
                    /\ UNCHANGED <<key_index, attempt, last_error_response, calls>>
               [] d = "again" ->
                    IF attempt[f] + 1 < MAX_RETRIES
                    THEN /\ attempt' = [attempt EXCEPT ![f] = @ + 1]
                         /\ calls' = [calls EXCEPT ![f] = @ + 1]
                         /\ UNCHANGED <<pc, key_index, last_error_response>>
                    ELSE /\ Advance(f)
                         /\ UNCHANGED <<last_error_response, calls>>
               [] OTHER ->
                    /\ last_error_response' =
                         [last_error_response EXCEPT ![f] = Remembered(o, k)]
                    /\ Advance(f)
                    /\ UNCHANGED calls
  /\ UNCHANGED <<usage, file, key_lock, file_lock, model_name, result, rpc,
                 tried, credited, reset_seen, benched_by, lastWasReset,
                 tui_pending, tui_owner>>
  /\ UNCHANGED chatVars

\* Thread t has mutated the map and is in save_api_keys.
Saving(t) ==
  IF t = ResetThread THEN rpc = "save" ELSE pc[t] \in {"account_save", "mark_save"}

\* save_api_keys, line 51: thread t, inside its key_lock block, takes file_lock.
FileLock(t) ==
  /\ Saving(t)
  /\ file_lock = NoOwner
  /\ file_lock' = t
  /\ UNCHANGED <<usage, file, key_lock, rpc, lastWasReset, flowVars>>
  /\ UNCHANGED chatVars

\* Lines 343-344: take key_lock and count the request.
AccountLock(f) ==
  /\ pc[f] = "account"
  /\ key_lock = NoOwner
  /\ key_lock' = f
  /\ usage' = RecordSuccess(usage, key_index[f], model_name[f])
  /\ credited' = [credited EXCEPT ![f] = Append(@, key_index[f])]
  /\ pc' = [pc EXCEPT ![f] = "account_save"]
  /\ lastWasReset' = FALSE
  /\ UNCHANGED <<file, file_lock, model_name, key_index, attempt,
                 last_error_response, result, rpc, trace, tried, reset_seen, benched_by,
                 calls, tui_pending, tui_owner, slept>>
  /\ UNCHANGED chatVars

\* Lines 345-352: save_api_keys writes the file inside key_lock and both locks
\* are released; then the response is returned.
AccountSave(f) ==
  /\ pc[f] = "account_save"
  /\ key_lock = f
  /\ file_lock = f
  /\ file_lock' = NoOwner
  /\ file' = Snapshot(usage)
  /\ key_lock' = NoOwner
  /\ result' = [result EXCEPT ![f] =
                  [kind |-> "success", status |-> 200, key |-> key_index[f]]]
  /\ pc' = [pc EXCEPT ![f] = "done"]
  /\ UNCHANGED <<usage, model_name, key_index, attempt,
                 last_error_response, rpc, trace, tried, credited, reset_seen, benched_by,
                 lastWasReset, calls, tui_owner, slept>>
  /\ tui_pending' = [tui_pending EXCEPT ![f] = TRUE]
  /\ UNCHANGED chatVars

\* handle_rate_limit_error, lines 191-199: take key_lock and bench the pair.
MarkLock(f) ==
  /\ pc[f] = "mark"
  /\ key_lock = NoOwner
  /\ key_lock' = f
  /\ usage' = RecordExhausted(usage, key_index[f], model_name[f])
  /\ benched_by' = [benched_by EXCEPT ![f] = @ \cup {key_index[f]}]
  /\ pc' = [pc EXCEPT ![f] = "mark_save"]
  /\ lastWasReset' = FALSE
  /\ UNCHANGED <<file, file_lock, model_name, key_index, attempt,
                 last_error_response, result, rpc, trace, tried, credited,
                 reset_seen, calls, tui_pending, tui_owner, slept>>
  /\ UNCHANGED chatVars

\* Line 200, then lines 360-362: save, remember the 429 and leave the credential.
MarkSave(f) ==
  /\ pc[f] = "mark_save"
  /\ key_lock = f
  /\ file_lock = f
  /\ file_lock' = NoOwner
  /\ file' = Snapshot(usage)
  /\ key_lock' = NoOwner
  /\ last_error_response' =
       [last_error_response EXCEPT ![f] = Remembered("rl_quota", key_index[f])]
  /\ Advance(f)
  /\ UNCHANGED <<usage, model_name, result, rpc, trace, tried, credited,
                 reset_seen, benched_by, lastWasReset, calls, tui_pending, tui_owner, slept>>
  /\ UNCHANGED chatVars

\* print_status_tui (lines 80-102), called at line 326 and at line 348: the
\* flow reads every record of the map; it takes no lock.
StatusRead(f) ==
  /\ tui_pending[f]
  /\ tui_pending' = [tui_pending EXCEPT ![f] = FALSE]
  /\ tui_owner' = [tui_owner EXCEPT ![f] = key_lock]
  /\ UNCHANGED <<usage, file, key_lock, file_lock, pc, model_name, key_index, attempt,
                 last_error_response, result, rpc, trace, tried, credited, reset_seen,
                 benched_by, lastWasReset, calls, slept>>
  /\ UNCHANGED chatVars

\* Lines 377-392: no attempt succeeded.
Finish(f) ==
  /\ pc[f] = "finish"
  /\ result' = [result EXCEPT ![f] = FinalResult(last_error_response[f])]
  /\ pc' = [pc EXCEPT ![f] = "done"]
  /\ UNCHANGED <<usage, file, key_lock, file_lock, model_name, key_index, attempt,
                 last_error_response, rpc, trace, tried, credited, reset_seen, benched_by,
                 lastWasReset, calls, tui_pending, tui_owner, slept>>
  /\ UNCHANGED chatVars

\* The response has been sent; the flow is free for the next request.
Return(f) ==
  /\ pc[f] = "done"
  /\ ~tui_pending[f]
  /\ pc' = [pc EXCEPT ![f] = "idle"]
  /\ model_name' = [model_name EXCEPT ![f] = "-"]
  /\ key_index' = [key_index EXCEPT ![f] = 0]
  /\ attempt' = [attempt EXCEPT ![f] = 0]
  /\ last_error_response' = [last_error_response EXCEPT ![f] = NoError]
  /\ result' = [result EXCEPT ![f] = NoResult]
  /\ trace' = [trace EXCEPT ![f] = <<>>]
  /\ tried' = [tried EXCEPT ![f] = {}]
  /\ credited' = [credited EXCEPT ![f] = <<>>]
  /\ reset_seen' = [reset_seen EXCEPT ![f] = FALSE]
  /\ benched_by' = [benched_by EXCEPT ![f] = {}]
  /\ calls' = [calls EXCEPT ![f] = 0]
  /\ tui_owner' = [tui_owner EXCEPT ![f] = Unread]
  /\ slept' = [slept EXCEPT ![f] = NoSleep]
  /\ UNCHANGED <<usage, file, key_lock, file_lock, rpc, lastWasReset, tui_pending>>
  /\ UNCHANGED chatVars

(* ---------------------------- reset thread ---------------------------- *)

\* reset_rpd_limits_daily, line 67: the sleep to midnight ends; the thread
\* comes to `with key_lock`.
Midnight ==
  /\ rpc = "sleep"
  /\ rpc' = "wait"
  /\ UNCHANGED <<usage, file, key_lock, file_lock, lastWasReset, flowVars>>
  /\ UNCHANGED chatVars

\* reset_rpd_limits_daily, lines 69-74: under key_lock clear every record.
ResetLock ==
  /\ rpc = "wait"
  /\ key_lock = NoOwner
  /\ key_lock' = ResetThread
  /\ usage' = ResetUsage(usage)
  /\ rpc' = "save"
  /\ reset_seen' = [f \in Flows |-> pc[f] # "idle"]
  /\ UNCHANGED <<file, file_lock, pc, model_name, key_index, attempt,
                 last_error_response, result, trace, tried, credited, benched_by,
                 lastWasReset, calls, tui_pending, tui_owner, slept>>
  /\ UNCHANGED chatVars

\* Variant of ResetSave: the thread goes to sleep without leaving key_lock.
ResetSaveKeepsLock ==
  /\ rpc = "save"
  /\ key_lock = ResetThread
  /\ file_lock = ResetThread
  /\ file_lock' = NoOwner
  /\ file' = Snapshot(usage)
  /\ rpc' = "sleep"
  /\ lastWasReset' = TRUE
  /\ UNCHANGED <<usage, key_lock, flowVars>>
  /\ UNCHANGED chatVars

\* Lines 75-78: save_api_keys inside key_lock, then sleep to the next midnight.
ResetSave ==
  /\ rpc = "save"
  /\ key_lock = ResetThread
  /\ file_lock = ResetThread
  /\ file_lock' = NoOwner
  /\ file' = Snapshot(usage)
  /\ key_lock' = NoOwner
  /\ rpc' = "sleep"
  /\ lastWasReset' = TRUE
  /\ UNCHANGED <<usage, flowVars>>
  /\ UNCHANGED chatVars

(* -------------------------- chat_completions -------------------------- *)

NoChat ==
  /\ t_pc = "idle"
  /\ openai_request = NoRequest
  /\ gemini_request_data = [contents |-> <<>>]
  /\ gemini_response_json = [candidates |-> <<>>]
  /\ openai_response = NoResponse

\* A chat request has arrived (lines 269-270); the body the internal call will
\* return is fixed with it.  Either any request, or the one-system-one-user
\* request with any upstream response.
InitChat ==
  /\ t_pc = "received"
  /\ \/ /\ openai_request \in [model : ChatModels, messages : SeqsUpTo(Messages, MaxMessages)]
        /\ gemini_response_json =
             [candidates |-> <<[parts |-> [present |-> TRUE,
                                          list |-> <<[has_text |-> TRUE, text |-> <<"Paris">>]>>],
                                finishReason |-> "STOP", index |-> -1]>>]
     \/ /\ openai_request = RoundTripRequest
        /\ gemini_response_json \in [candidates : SeqsUpTo(Candidates, MaxCandidates)]
  /\ gemini_request_data = [contents |-> <<>>]
  /\ openai_response = NoResponse

\* Line 272.
TranslateRequest ==
  /\ t_pc = "received"
  /\ gemini_request_data' = convert_openai_to_gemini_request(openai_request)
  /\ t_pc' = "forwarded"
  /\ UNCHANGED <<openai_request, gemini_response_json, openai_response>>
  /\ UNCHANGED dispatchVars

\* Lines 277-282: the internal call returned 200 with gemini_response_json.
TranslateResponse ==
  /\ t_pc = "forwarded"
  /\ openai_response' =
       convert_gemini_to_openai_response(gemini_response_json, openai_request.model)
  /\ t_pc' = "responded"
  /\ UNCHANGED <<openai_request, gemini_request_data, gemini_response_json>>
  /\ UNCHANGED dispatchVars

(* --------------------------- specifications --------------------------- *)

Init == InitDispatch /\ NoChat

FlowStep(f) ==
  \/ Start(f)
  \/ Select(f)
  \/ StatusRead(f)
  \/ UpstreamResponds(f)
  \/ AccountLock(f)
  \/ FileLock(f)
  \/ AccountSave(f)
  \/ MarkLock(f)
  \/ MarkSave(f)
  \/ Finish(f)
  \/ Return(f)

\* One request at a time, with the reset thread running beside it.
Next ==
  \/ \E f \in SeqFlows : FlowStep(f)
  \/ Midnight
  \/ ResetLock
  \/ FileLock(ResetThread)
  \/ ResetSave

Spec == Init /\ [][Next]_vars

\* The steps a request thread takes by itself once the request has arrived.
\* The answer to requests.post is not among them: the call at line 332 passes
\* no timeout, so nothing in the program makes it return.
LocalStep(f) ==
  \/ Select(f)
  \/ StatusRead(f)
  \/ AccountLock(f)
  \/ FileLock(f)
  \/ AccountSave(f)
  \/ MarkLock(f)
  \/ MarkSave(f)
  \/ Finish(f)

\* Spec with its threads scheduled: a thread that can take a step, or can take
\* it again and again (a lock that keeps becoming free), takes it, and the
\* reset thread finishes a reset it began.
SpecLive ==
  /\ Init
  /\ [][Next]_vars
  /\ \A f \in SeqFlows : SF_vars(LocalStep(f))
  /\ SF_vars(ResetLock)
  /\ SF_vars(FileLock(ResetThread))
  /\ WF_vars(ResetSave)

\* The answers the upstream gives in the concurrent specification.
ConcOutcomes == {"ok", "s503", "rl_quota"}

UpstreamRespondsConc(f) ==
  /\ UpstreamResponds(f)
  /\ Last(trace'[f]) \in ConcOutcomes

FlowStepConc(f) ==
  \/ Start(f)
  \/ Select(f)
  \/ StatusRead(f)
  \/ UpstreamRespondsConc(f)
  \/ AccountLock(f)
  \/ FileLock(f)
  \/ AccountSave(f)
  \/ MarkLock(f)
  \/ MarkSave(f)
  \/ Finish(f)
  \/ Return(f)

\* Two requests served by two threads at once, between two midnights (the
\* reset thread sleeps throughout).
NextConc == \E f \in Flows : FlowStepConc(f)

SpecConc == Init /\ [][NextConc]_vars

\* The answers after which a flow takes the locks: a 200 (accounting) and a
\* 429 with the quota marker (marking).
LockOutcomes == {"ok", "rl_quota"}

UpstreamRespondsLocks(f) ==
  /\ UpstreamResponds(f)
  /\ Last(trace'[f]) \in LockOutcomes

FlowStepLocks(f) ==
  \/ Start(f)
  \/ Select(f)
  \/ StatusRead(f)
  \/ UpstreamRespondsLocks(f)
  \/ AccountLock(f)
  \/ FileLock(f)
  \/ AccountSave(f)
  \/ MarkLock(f)
  \/ MarkSave(f)
  \/ Finish(f)
  \/ Return(f)

NextLocks ==
  \/ \E f \in Flows : FlowStepLocks(f)
  \/ Midnight
  \/ ResetLock
  \/ FileLock(ResetThread)
  \/ ResetSave

\* The steps in which a request thread enters `with key_lock`.
KeyLockStep(f) ==
  \/ Select(f)
  \/ AccountLock(f)
  \/ MarkLock(f)

\* The steps of a request thread that nothing but the thread itself disables.
OwnStep(f) ==
  \/ StatusRead(f)
  \/ FileLock(f)
  \/ AccountSave(f)
  \/ MarkSave(f)
  \/ Finish(f)

\* Two request threads and the reset thread contending for the two locks.  A
\* thread takes a step that stays possible, and a thread at key_lock gets the
\* lock if it is free again and again.
SpecLocks ==
  /\ Init
  /\ [][NextLocks]_vars
  /\ \A f \in Flows : SF_vars(KeyLockStep(f))
  /\ \A f \in Flows : WF_vars(OwnStep(f))
  /\ SF_vars(ResetLock)
  /\ WF_vars(FileLock(ResetThread) \/ ResetSave)

\* The translators of chat_completions applied to bounded inputs.
InitTranslate == InitDispatch /\ InitChat

NextTranslate ==
  \/ TranslateRequest
  \/ TranslateResponse

SpecTranslate == InitTranslate /\ [][NextTranslate]_vars

(* ------------------------- claims: helpers ---------------------------- *)

\* The pair (k, m) has a record whose flag is set, read from the state.
Benched(k, m) == m \in DOMAIN usage[k] /\ usage[k][m].rpd_limit_reached

BenchedNext(k, m) == m \in DOMAIN usage'[k] /\ usage'[k][m].rpd_limit_reached

Count(u, k, m) == IF m \in DOMAIN u[k] THEN u[k][m].request_count ELSE 0

Pairs == {<<k, m>> \in Keys \X (Models \cup {OtherModel}) : TRUE}

SetMax(S) == CHOOSE x \in S : \A y \in S : y <= x

\* The flow has received a success and is accounting or has returned it.
Succeeding(f) == pc[f] \in {"account", "account_save", "done"}

SuccessWith(k) == [kind |-> "success", status |-> 200, key |-> k]

\* A reset step clears the records in this step.
ResetActs == rpc = "wait" /\ rpc' = "save"

(* ------------------------------- C1 ----------------------------------- *)

C1_Inv ==
  \A f \in Flows :
    /\ (trace[f] # <<>> /\ Last(trace[f]) = "ok") =>
         /\ Succeeding(f)
         /\ Len(trace[f]) <= MAX_RETRIES
         /\ key_index[f] \in tried[f]
         /\ ~(pc[f] = "account") => credited[f] = <<key_index[f]>>
         /\ pc[f] = "done" => result[f] = SuccessWith(key_index[f])
    /\ Len(credited[f]) <= 1
    /\ (pc[f] = "done" /\ result[f].kind = "success") =>
         (trace[f] # <<>> /\ Last(trace[f]) = "ok")

C1_Step ==
  LET raised == {p \in Pairs : Count(usage', p[1], p[2]) > Count(usage, p[1], p[2])}
  IN /\ raised # {} =>
          \E f \in Flows :
            /\ pc[f] = "account" /\ pc'[f] = "account_save"
            /\ raised = {<<key_index[f], model_name[f]>>}
            /\ Count(usage', key_index[f], model_name[f])
                 = Count(usage, key_index[f], model_name[f]) + 1
     /\ \A f \in Flows :
          (pc[f] = "account" /\ pc'[f] = "account_save") =>
             /\ raised = {<<key_index[f], model_name[f]>>}
             /\ \A p \in Pairs \ raised :
                  /\ (p[2] \in DOMAIN usage[p[1]]) = (p[2] \in DOMAIN usage'[p[1]])
                  /\ p[2] \in DOMAIN usage[p[1]] => usage'[p[1]][p[2]] = usage[p[1]][p[2]]

\* C1: a 2xx received for a selected credential within its attempt budget makes
\* the request return success with that credential, and the accounting step
\* raises the request_count of exactly one record of the whole usage map, the
\* serving credential's record for the requested model, by exactly 1; no other
\* step raises any request_count.
C1_SuccessCountsOnce == []C1_Inv /\ [][C1_Step]_vars

\* A request served by credential #2 after credential #1 failed.
C1_Witness ==
  /\ pc["f1"] = "done"
  /\ result["f1"] = SuccessWith(2)
  /\ tried["f1"] = {1, 2}
  /\ credited["f1"] = <<2>>
  /\ Count(usage, 2, model_name["f1"]) = 1

(* ------------------------------- C2 ----------------------------------- *)

C2_Step ==
  /\ \A p \in Pairs :
       (Benched(p[1], p[2]) /\ ~ResetActs) => BenchedNext(p[1], p[2])
  /\ \A f \in Flows :
       \A k \in tried'[f] \ tried[f] :
          /\ ~Benched(k, model_name[f])
          /\ ~BenchedNext(k, model_name[f])
  /\ \A f \in Flows :
       (pc[f] = "select" /\ Benched(key_index[f], model_name[f])) =>
          (pc'[f] # "call" /\ tried'[f] = tried[f])

\* C2: a set exhausted flag stays set until a reset step clears it, and while it
\* is set no flow selects that credential for that model: the selection step
\* skips it without adding it to the credentials used for upstream calls.
C2_ExhaustionSticky == [][C2_Step]_vars

\* Credential #1 is benched, and a request that met it benched is calling with #2.
C2_Witness ==
  /\ Benched(1, "gemini-2.5-pro")
  /\ pc["f1"] = "call"
  /\ key_index["f1"] = 2
  /\ tried["f1"] = {2}
  /\ ~reset_seen["f1"]

(* ------------------------------- C3 ----------------------------------- *)

C3_Step ==
  \A f \in Flows :
    /\ pc[f] = "select" =>
         LET k == key_index[f] IN
           \/ /\ ~Benched(k, model_name[f])
              /\ pc'[f] = "call"
              /\ key_index'[f] = k
              /\ k \notin tried[f]
              /\ \A j \in tried[f] : j < k
              /\ tried'[f] = tried[f] \cup {k}
           \/ /\ Benched(k, model_name[f])
              /\ pc'[f] \in {"select", "finish"}
              /\ key_index'[f] = k + 1
              /\ tried'[f] = tried[f]
           \/ UNCHANGED <<pc[f], key_index[f], tried[f]>>
    /\ (pc[f] \notin {"select", "done", "idle"}) => tried'[f] = tried[f]
    /\ pc'[f] = "call" => key_index'[f] = SetMax(tried'[f])

\* C3: within one request credentials are visited in load order; a visited
\* credential is selected iff its record for the model is not exhausted, it is
\* then a credential not selected before and later than every one selected
\* before, and every upstream call uses the credential selected last.
C3_PriorityOrder == [][C3_Step]_vars

\* Credentials #1 and #2 are exhausted and the request was served by #3 alone.
C3_Witness ==
  /\ Benched(1, "gemini-2.5-pro")
  /\ Benched(2, "gemini-2.5-pro")
  /\ pc["f1"] = "done"
  /\ tried["f1"] = {3}
  /\ benched_by["f1"] = {}
  /\ result["f1"] = SuccessWith(3)

(* ------------------------------- C4 ----------------------------------- *)

C4_Inv ==
  \A f \in Flows :
    /\ (trace[f] # <<>> /\ Last(trace[f]) = "rl_quota" /\ pc[f] = "call") => FALSE
    /\ (pc[f] \in {"mark", "mark_save"}) =>
         (Last(trace[f]) = "rl_quota" /\ key_index[f] = SetMax(tried[f]))
    /\ \A k \in benched_by[f] :
         /\ k \in tried[f]
         /\ k = key_index[f] => pc[f] = "mark_save"
         /\ k # key_index[f] => k < key_index[f]
         /\ ~reset_seen[f] => Benched(k, model_name[f])
         /\ credited[f] # <<k>>
         /\ (pc[f] # "mark_save" /\ last_error_response[f].key <= k) =>
              last_error_response[f] = [kind |-> "response", status |-> 429, key |-> k]
    /\ (pc[f] = "done" /\ result[f].kind = "success") =>
         /\ result[f].key \notin benched_by[f]
         /\ credited[f] = <<result[f].key>>

C4_Step ==
  \A f \in Flows :
    (pc[f] = "mark" /\ pc'[f] = "mark_save") =>
       /\ BenchedNext(key_index[f], model_name[f])
       /\ \A p \in Pairs : Count(usage', p[1], p[2]) = Count(usage, p[1], p[2])
       /\ \A p \in Pairs \ {<<key_index[f], model_name[f]>>} :
            Benched(p[1], p[2]) = BenchedNext(p[1], p[2])

\* C4: a 429 without retry delay that carries the quota marker makes the flow
\* mark that (credential, model) pair exhausted without changing any
\* request_count, remember the 429 and leave the credential for good (no further
\* attempt with it in this request); the pair stays exhausted while no reset
\* runs, and a success on a later credential is credited to that credential only.
C4_Escalation == []C4_Inv /\ [][C4_Step]_vars

\* #1 answered 429 with the quota marker, #2 then answered 200.
C4_Witness ==
  /\ pc["f1"] = "done"
  /\ result["f1"] = SuccessWith(2)
  /\ benched_by["f1"] = {1}
  /\ tried["f1"] = {1, 2}
  /\ Benched(1, "gemini-2.5-pro")
  /\ Count(usage, 1, "gemini-2.5-pro") = 0
  /\ Count(usage, 2, "gemini-2.5-pro") = 1
  /\ credited["f1"] = <<2>>

(* ------------------------------- C5 ----------------------------------- *)

\* C5: after 503 on the first, or on the first and second, attempt the next
\* upstream call is made with the same credential, and 503, 503, 200 on one
\* credential ends in success with that credential on the third attempt, its
\* request_count raised exactly once, no other credential being selected
\* meanwhile.
C5_TransientRetry ==
  \A f \in Flows :
    /\ (trace[f] \in {<<"s503">>, <<"s503", "s503">>}) =>
         /\ pc[f] = "call"
         /\ key_index[f] = SetMax(tried[f])
         /\ attempt[f] = Len(trace[f])
         /\ credited[f] = <<>>
    /\ trace[f] = <<"s503", "s503", "ok">> =>
         /\ Succeeding(f)
         /\ key_index[f] = SetMax(tried[f])
         /\ attempt[f] = MAX_RETRIES - 1
         /\ pc[f] = "account" => credited[f] = <<>>
         /\ pc[f] # "account" => credited[f] = <<key_index[f]>>
         /\ pc[f] = "done" => result[f] = SuccessWith(key_index[f])

\* 503, 503, 200 on the first credential: served by it, nothing else tried.
C5_Witness ==
  /\ trace["f1"] = <<"s503", "s503", "ok">>
  /\ pc["f1"] = "done"
  /\ tried["f1"] = {1}
  /\ result["f1"] = SuccessWith(1)
  /\ Count(usage, 1, "gemini-2.5-pro") = 1

(* ------------------------------- C6 ----------------------------------- *)

C6_Step ==
  /\ (ResetActs /\ lastWasReset) => usage' = usage
  /\ (rpc = "save" /\ rpc' = "sleep" /\ lastWasReset) => (file' = file /\ usage' = usage)
  /\ (rpc = "save" /\ rpc' = "sleep") =>
       \A k \in Keys : file'[k].usage = usage'[k]

\* C6: a reset that runs when the last change of the usage map or of the file
\* was a reset changes neither the in-memory usage map nor the file.
C6_ResetIdempotent == [][C6_Step]_vars

\* A second reset in a row has cleared the map and is about to save, with
\* records present in the map.
C6_Witness ==
  /\ lastWasReset
  /\ rpc = "save"
  /\ \A k \in Keys : "gemini-2.5-pro" \in DOMAIN usage[k]

(* ------------------------------- C7 ----------------------------------- *)

\* C7: a request in which no attempt succeeded returns the last remembered
\* error with its upstream status, and the synthesized 503 only when no error
\* was remembered (in particular when no upstream call was issued).
C7_TerminalResult ==
  \A f \in Flows :
    (pc[f] = "done" /\ result[f].kind # "success") =>
       IF last_error_response[f] # NoError
       THEN /\ result[f].kind \in {"upstream_error", "transport_error"}
            /\ result[f].status = last_error_response[f].status
            /\ result[f].key = last_error_response[f].key
       ELSE /\ result[f] = [kind |-> "all_exhausted", status |-> 503, key |-> 0]

(* ------------------------------- C8 ----------------------------------- *)

\* The text of a candidate: that of its first part, empty when it has none.
CandidateText(c) ==
  IF c.parts.present /\ c.parts.list # <<>> /\ c.parts.list[1].has_text
  THEN c.parts.list[1].text
  ELSE <<>>

\* C8: the translated response has one choice per upstream candidate, in order,
\* with role assistant, the candidate's text as content, the finish reason
\* passed through (default "stop"), the requested model echoed and the three
\* usage fields present and zero.
C8_ResponseTranslation ==
  t_pc = "responded" =>
    LET cs == gemini_response_json.candidates IN
      /\ ~openai_response.raised
      /\ openai_response.model = openai_request.model
      /\ Len(openai_response.choices) = Len(cs)
      /\ \A i \in 1..Len(cs) :
           /\ openai_response.choices[i].message =
                [role |-> "assistant", content |-> CandidateText(cs[i])]
           /\ openai_response.choices[i].finish_reason =
                (IF cs[i].finishReason = "" THEN "stop" ELSE cs[i].finishReason)
      /\ openai_response.usage =
           [prompt_tokens |-> 0, completion_tokens |-> 0, total_tokens |-> 0]

(* ------------------------------- C9 ----------------------------------- *)

IsRole(msgs, i, r) == msgs[i].role = r

\* The index of the j-th message that is not a system message.
NthNonSystem(msgs, j) ==
  CHOOSE i \in 1..Len(msgs) :
    /\ ~IsRole(msgs, i, "system")
    /\ Cardinality({x \in 1..i : ~IsRole(msgs, x, "system")}) = j

\* The system messages before message i with no user message in between.
SystemsBefore(msgs, i) ==
  {s \in 1..(i - 1) :
     /\ IsRole(msgs, s, "system")
     /\ \A u \in (s + 1)..(i - 1) : ~IsRole(msgs, u, "user")}

\* The system text the claim as stated puts in front of user message i: the
\* earliest non-empty one of SystemsBefore.
EarliestText(msgs, i) ==
  LET S == {s \in SystemsBefore(msgs, i) : msgs[s].content.text # <<>>}
  IN IF S = {} THEN <<>>
     ELSE msgs[CHOOSE s \in S : \A x \in S : s <= x].content.text

\* The text of the latest system message of SystemsBefore.
LatestText(msgs, i) ==
  LET S == SystemsBefore(msgs, i)
  IN IF S = {} THEN <<>>
     ELSE msgs[CHOOSE s \in S : \A x \in S : x <= s].content.text

\* A content with text t in front: newline-joined onto a string or onto the
\* first text part of a list, else as a new first text part.
Joined(t, c) ==
  IF c.kind = "str" THEN [c EXCEPT !.text = t \o <<"\n">> \o c.text]
  ELSE IF Len(c.parts) > 0 /\ c.parts[1].type = "text"
       THEN [c EXCEPT !.parts[1].text = t \o <<"\n">> \o c.parts[1].text]
       ELSE [c EXCEPT !.parts = <<[type |-> "text", text |-> t]>> \o c.parts]

C9_Entry(msgs, i, t) ==
  [role |-> IF IsRole(msgs, i, "user") THEN "user" ELSE "model",
   parts |-> <<[text |-> IF IsRole(msgs, i, "user") /\ t # <<>>
                         THEN Joined(t, msgs[i].content)
                         ELSE msgs[i].content]>>]

NonSystemCount(msgs) == Cardinality({x \in 1..Len(msgs) : ~IsRole(msgs, x, "system")})

\* Every message is a string and no system message is empty.
PlainRequest(msgs) ==
  \A i \in 1..Len(msgs) :
    /\ msgs[i].content.kind = "str"
    /\ IsRole(msgs, i, "system") => msgs[i].content.text # <<>>

\* C9 as stated (for string contents and non-empty system texts): system
\* messages produce no entry, the others are mapped in order, and of several
\* system messages with no user message in between the earlier one is the one
\* prepended to the next user message.
C9_EarlierSystemKept ==
  (t_pc # "received" /\ PlainRequest(openai_request.messages)) =>
    LET msgs == openai_request.messages
        out == gemini_request_data.contents
    IN /\ Len(out) = NonSystemCount(msgs)
       /\ \A j \in 1..Len(out) :
            LET i == NthNonSystem(msgs, j)
            IN out[j] = C9_Entry(msgs, i, EarliestText(msgs, i))

\* C9 amended: system messages produce no entry; the other messages are mapped
\* in order, assistant to "model" and user to "user"; a user message gets in
\* front the text of the latest system message that precedes it with no user
\* message in between, when that text is not empty, and no other message is
\* changed; earlier system messages of such a run are dropped.
C9_LatestSystemKept ==
  t_pc # "received" =>
    LET msgs == openai_request.messages
        out == gemini_request_data.contents
    IN /\ Len(out) = NonSystemCount(msgs)
       /\ \A j \in 1..Len(out) :
            LET i == NthNonSystem(msgs, j)
            IN out[j] = C9_Entry(msgs, i, LatestText(msgs, i))

\* system "a", system "b", user "a": the user message carries "b".
C9_Witness ==
  /\ t_pc = "forwarded"
  /\ openai_request.messages =
       <<[role |-> "system", content |-> StrContent(<<"a">>)],
         [role |-> "system", content |-> StrContent(<<"b">>)],
         [role |-> "user", content |-> StrContent(<<"a">>)]>>
  /\ gemini_request_data.contents =
       <<[role |-> "user",
          parts |-> <<[text |-> StrContent(<<"b", "\n", "a">>)]>>]>>

(* ------------------------------- C10 ---------------------------------- *)

C11_RateLimitFallsThrough ==
  \A f \in Flows :
    (Len(trace[f]) = MAX_RETRIES /\ Last(trace[f]) = "rl_delay" /\ pc[f] # "call") =>
       /\ last_error_response[f] =
            [kind |-> "response", status |-> 429, key |-> SetMax(tried[f])]
       /\ pc[f] = "done" =>
            result[f] = [kind |-> "upstream_error", status |-> 429,
                         key |-> SetMax(tried[f])]

(* ------------------------------- C12 ---------------------------------- *)

C12_Inv ==
  \A f \in Flows :
    /\ Len(trace[f]) <= 3
    /\ Len(trace[f]) = 3 => pc[f] # "call"
    /\ pc[f] = "call" => attempt[f] = Len(trace[f])
    /\ calls[f] <= 3 * Cardinality(tried[f])
    /\ calls[f] <= 3 * NumKeys

C12_Step ==
  \A f \in Flows :
    calls'[f] > calls[f] =>
       /\ calls'[f] = calls[f] + 1
       /\ pc'[f] = "call"
       /\ \/ /\ pc[f] = "select"
             /\ key_index'[f] \notin tried[f]
             /\ tried'[f] = tried[f] \cup {key_index'[f]}
          \/ /\ pc[f] = "call"
             /\ key_index'[f] = key_index[f]
             /\ tried'[f] = tried[f]
             /\ Len(trace[f]) < 2

\* C12: whatever the upstream answers, a request receives at most 3 answers
\* with one credential and is never in a call with it after the third; a call
\* is issued either with a credential not used before in the request or as
\* the second or third attempt with the current one, so that the calls issued
\* for the request never exceed 3 per credential used, nor 3 x NumKeys.
C12_AttemptBound == []C12_Inv /\ [][C12_Step]_vars

\* Every credential was called three times and the request has ended.
C12_Witness ==
  /\ pc["f1"] = "done"
  /\ tried["f1"] = Keys
  /\ calls["f1"] = 3 * NumKeys
  /\ result["f1"].kind # "success"

(* ------------------------------- C13 ---------------------------------- *)

\* Record r with its flag cleared and its request_count zeroed.
Cleared(r) ==
  [token_count |-> r.token_count, request_count |-> 0, rpd_limit_reached |-> FALSE]

C13_Step ==
  /\ ResetActs =>
       /\ DOMAIN usage' = DOMAIN usage
       /\ \A k \in Keys :
            /\ DOMAIN usage'[k] = DOMAIN usage[k]
            /\ \A m \in DOMAIN usage[k] : usage'[k][m] = Cleared(usage[k][m])
  /\ (rpc = "save" /\ rpc' = "sleep") =>
       /\ usage' = usage
       /\ \A k \in Keys : \A m \in DOMAIN usage'[k] :
            /\ ~usage'[k][m].rpd_limit_reached
            /\ usage'[k][m].request_count = 0
       /\ DOMAIN file' = Keys
       /\ \A k \in Keys : file'[k].key = k /\ file'[k].usage = usage'[k]

\* C13: the reset step leaves every credential with the same set of records,
\* each with its token_count kept, its request_count zero and its flag clear;
\* when the reset completes the map is still so, and the file lists the same
\* credentials in the same order with exactly those records.
C13_ResetEffectAndFrame == [][C13_Step]_vars

\* A reset has completed over a record with a lifetime token count and over
\* records of the requested model, one of which had been counted before.
C13_Witness ==
  /\ lastWasReset
  /\ rpc = "sleep"
  /\ usage[1][OtherModel] = [token_count |-> 5, request_count |-> 0, rpd_limit_reached |-> FALSE]
  /\ "gemini-2.5-pro" \in DOMAIN usage[1]
  /\ pc["f1"] = "done"
  /\ result["f1"] = SuccessWith(1)
  /\ reset_seen["f1"]

(* ------------------------------- C14 ---------------------------------- *)

\* C14: every read of the usage records happens under the state lock, so no
\* flow reads them while another thread holds that lock in the middle of an
\* update: a status read never finds key_lock held by another thread.
C14_NoReadDuringUpdate ==
  \A f \in Flows : tui_owner[f] \in {Unread, NoOwner, f}

(* ------------------------------- C15 ---------------------------------- *)

\* C15: the state lock is released before the snapshot is written, so no
\* thread is in save_api_keys holding key_lock while another flow waits for
\* key_lock to check a credential's eligibility.
C15_PersistOutsideStateLock ==
  \A t \in Flows \cup {ResetThread} :
    \A f \in Flows \ {t} :
       ~(Saving(t) /\ key_lock = t /\ pc[f] = "select")

(* ------------------------------- C16 ---------------------------------- *)

\* C16: whenever no mutation of the usage map is in progress (no thread holds
\* key_lock), the file is the snapshot of the in-memory map, lazily created
\* records included.
C16_PersistedAfterEveryMutation ==
  key_lock = NoOwner => file = Snapshot(usage)

(* ------------------------------- C17 ---------------------------------- *)

\* C17: a flow that is in an upstream call eventually reaches a terminal
\* state, success or error response, even if the upstream never answers.
C17_BoundedUpstreamWait ==
  \A f \in SeqFlows : (pc[f] = "call") ~> (pc[f] = "done")

(* ------------------------------- C18 ---------------------------------- *)

C18_Step ==
  \A p \in Pairs :
    (~Benched(p[1], p[2]) /\ BenchedNext(p[1], p[2])) =>
       \E f \in Flows :
         /\ pc[f] = "mark" /\ pc'[f] = "mark_save"
         /\ p = <<key_index[f], model_name[f]>>
         /\ Last(trace[f]) = "rl_quota"
         /\ ~HasRetryDelay(Last(trace[f]))

C18_Inv ==
  \A f \in Flows :
    /\ pc[f] \in {"mark", "mark_save"} => (trace[f] # <<>> /\ Last(trace[f]) = "rl_quota")
    /\ \A i \in 1..Len(trace[f]) :
         trace[f][i] = "rl_plain" =>
            /\ i = Len(trace[f])
            /\ pc[f] \in {"select", "finish", "done"}
            /\ key_index[f] > SetMax(tried[f])
            /\ SetMax(tried[f]) \notin benched_by[f]
            /\ last_error_response[f] =
                 [kind |-> "response", status |-> 429, key |-> SetMax(tried[f])]

\* C18: a flag goes from clear to set only in the marking step of a flow whose
\* latest answer was a 429 without retry delay carrying the quota marker, and
\* for that flow's credential and model; a 429 with neither delay nor marker
\* is not retried and not marked: the 429 is remembered and the flow leaves
\* the credential.
C18_OnlyQuotaBenches == []C18_Inv /\ [][C18_Step]_vars

\* #1 was marked on a quota 429; #2 then answered a 429 with neither delay nor
\* marker and was left unmarked, its 429 remembered.
C18_Witness ==
  /\ benched_by["f1"] = {1}
  /\ trace["f1"] = <<"rl_plain">>
  /\ tried["f1"] = {1, 2}
  /\ pc["f1"] = "select"
  /\ key_index["f1"] = 3
  /\ Benched(1, "gemini-2.5-pro")
  /\ ~Benched(2, "gemini-2.5-pro")
  /\ last_error_response["f1"] = [kind |-> "response", status |-> 429, key |-> 2]

(* ------------------------------- C19 ---------------------------------- *)

\* No sleep on a provided delay follows a credential's last permitted attempt.
C19_NoSleepAfterLastAttempt == \A f \in Flows : ~slept[f].late

\* C19: whatever delays the upstream supplies, a request never sleeps as long
\* as LongDelay on a provided delay, and it never sleeps on a provided delay
\* after the last attempt its credential is permitted.
C19_BoundedRateLimitWait ==
  /\ \A f \in Flows : slept[f].longest < LongDelay
  /\ C19_NoSleepAfterLastAttempt

(* ------------------------------- C20 ---------------------------------- *)

\* No flow has just counted a success on a pair whose flag is set.
C20_NoSuccessOnBenched ==
  \A f \in Flows :
    pc[f] = "account_save" => ~Benched(key_index[f], model_name[f])

\* No upstream call is issued with a credential whose flag for the model is set.
C20_Step ==
  \A f \in Flows :
    calls'[f] > calls[f] => ~Benched(key_index'[f], model_name'[f])

\* C20: while the flag of a (credential, model) pair is set, no flow issues an
\* upstream call with that credential for that model, a flow that selected it
\* earlier and is retrying included, and no flow accounts a success to the pair.
C20_BenchedUnusedUntilReset == []C20_NoSuccessOnBenched /\ [][C20_Step]_vars

(* ------------------------------- C21 ---------------------------------- *)

Threads == Flows \cup {ResetThread}

\* Thread t is at a `with key_lock` it has not entered yet.
AtKeyLock(t) ==
  IF t = ResetThread THEN rpc = "wait" ELSE pc[t] \in {"select", "account", "mark"}

C21_Inv ==
  /\ file_lock # NoOwner => key_lock = file_lock
  /\ \A t \in Threads :
       /\ key_lock = t => Saving(t)
       /\ AtKeyLock(t) => (key_lock # t /\ file_lock # t)
  /\ \A f \in Flows : pc[f] = "call" => (key_lock # f /\ file_lock # f)
  /\ rpc = "sleep" => (key_lock # ResetThread /\ file_lock # ResetThread)

C21_Step ==
  /\ (key_lock' # key_lock /\ key_lock' # NoOwner) =>
        (key_lock = NoOwner /\ file_lock = NoOwner /\ file_lock' = NoOwner)
  /\ (file_lock' # file_lock /\ file_lock' # NoOwner) =>
        (file_lock = NoOwner /\ key_lock = file_lock' /\ key_lock' = key_lock)
  /\ \A f \in Flows :
       trace'[f] # trace[f] =>
          (key_lock' = key_lock /\ file_lock' = file_lock /\ key_lock # f /\ file_lock # f)

\* Thread t has come to a lock and has not got it yet.
Waits(t) == AtKeyLock(t) \/ (Saving(t) /\ file_lock # t)

\* No thread stays at a lock for ever (a thread passes finitely many locks in
\* a row: the credentials it skips, or key_lock and then file_lock).
C21_Progress == \A t \in Threads : []<>(~Waits(t))

====
